---- MODULE Spec2Model ----
(***************************************************************************)
(* JobFlow-AI: the AutoPilot automation loop (components/AutoPilot.tsx)    *)
(* over the job list, the running flag and the log held by App.tsx, with   *)
(* the AI service facade (analyzeAndApply) as its only collaborator.       *)
(*                                                                         *)
(* The loop is a React effect with dependencies [isRunning, jobs].  Every  *)
(* commit that changes one of them runs the cleanup of the previous effect *)
(* instance and then the effect again, in a new closure that captures the  *)
(* isRunning and jobs of that render.  A processNextJob invocation keeps   *)
(* the captured values of its own closure across its awaits and across the *)
(* timer that reschedules it.                                              *)
(***************************************************************************)
EXTENDS Integers, Sequences, FiniteSets, TLC

\* ---------------------------------------------------------------- bounds
MaxJobs == 2
MaxLogs == 5
MaxUrls == 2
MaxBatch == 2
MaxQueue == 3
MaxOverflow == 2
MaxWords == 3
MaxResume == 1
MaxPerTitle == 26
MaxSaved == 2
MaxEdits == 1
MaxLoads == 1
MaxMoves == 1

\* ------------------------------------------------------ program constants
Threshold == 60
MaxScore == 100
FallbackMin == 30
FallbackMax == 98
Retention == 50
Retries == 2
DefaultScore == 50
MaxKeywords == 15
Boost == 20
MinLength == 2
PageSize == 50

\* ------------------------------------------------------------ data model
Status == {"new", "analyzing", "applying", "applied", "failed", "skipped"}

Terminal == {"applied", "skipped", "failed"}

LogType == {"info", "success", "error", "action"}

\* matchScore is optional: <<>> is an absent score, <<s>> the score s.
NoScore == <<>>

\* A listing as the discovery adapter or the manual form creates it.
NewJob(i) ==
  [id |-> i, url |-> i, status |-> "new", matchScore |-> NoScore,
   generatedCoverLetter |-> FALSE, applicationNotes |-> "none",
   interviewPrep |-> FALSE]

\* A listing that an earlier session already applied to.
AppliedJob(i) ==
  [id |-> i, url |-> i, status |-> "applied", matchScore |-> <<Threshold>>,
   generatedCoverLetter |-> TRUE, applicationNotes |-> "ready",
   interviewPrep |-> FALSE]

\* Scores the model's JSON may carry, around the threshold and at the ends.
Scores == {0, Threshold - 1, Threshold, MaxScore}

\* Scores of the local keyword-overlap heuristic: the ends of its range 30..98.
FallbackScores == {FallbackMin, FallbackMax}

VARIABLES
  jobs,       \* App state: the job list
  isRunning,  \* App state: isAutoPilotRunning
  logs,       \* App state: the automation log
  pending,    \* a commit changed isRunning or jobs and the effect has not run yet
  closures,   \* processNextJob invocations that are suspended, with their closure
  facade,     \* which build of the AI service facade is linked
  quotaOnly,  \* the external API answers every request with a quota error
  hist,       \* history: the statuses each record has had
  lastOp,     \* history: the step that was taken last
  storage,    \* localStorage['jobflow_state']: <<>> or <<blob>>
  saveTimer,  \* the 1 s timer of the save effect: <<>> or <<captured state>>
  io,         \* the facade or adapter function under study: its input and progress
  board       \* KanbanBoard: the card being dragged, the ids whose prep is generated

vars == <<jobs, isRunning, logs, pending, closures, facade, quotaOnly, hist, lastOp,
          storage, saveTimer, io, board>>

\* --------------------------------------------------------------- helpers
\* jobs.findIndex(j => j.status === 'new'), 1-based; 0 stands for -1.
FindIndexNew(js) ==
  IF \E i \in 1..Len(js) : js[i].status = "new"
  THEN CHOOSE i \in 1..Len(js) :
         /\ js[i].status = "new"
         /\ \A k \in 1..(i - 1) : js[k].status # "new"
  ELSE 0

SetAtOffByOne(prev, jobIndex, rec) ==
  [prev EXCEPT ![IF jobIndex > 1 THEN jobIndex - 1 ELSE jobIndex + 1] = rec]

\* setJobs(prev => { const n = [...prev]; n[jobIndex] = rec; return n; })
SetAt(prev, jobIndex, rec) == [prev EXCEPT ![jobIndex] = rec]

\* addLog(message, type)
\* timestamp: the entries are stamped in the order they are generated.
AddLog(ls, msg, type) ==
  Append(ls, [message |-> msg, type |-> type, timestamp |-> Len(ls) + 1])

Record(h, js) ==
  [i \in DOMAIN js |-> (IF i \in DOMAIN h THEN h[i] ELSE {}) \cup {js[i].status}]

\* return () => clearTimeout(timeout): the cleanup of the effect instance
\* that ran last cancels the timer of that instance, if it has set one.
Cleanup(cs) ==
  {[c EXCEPT !.live = FALSE] : c \in {d \in cs : ~(d.live /\ d.pc = "timer")}}

\* The log is cut off at MaxLogs entries; the end-to-end scenario gets the
\* entries of one full round over its records and the completion entry.
LogBound == IF quotaOnly THEN 2 * Len(jobs) + 1 ELSE MaxLogs

\* ------------------------------------------------------ AI service facade
Failures == {"nokey", "quota", "network", "malformed"}

\* What the external API does with one analyzeAndApply request: it answers
\* with JSON carrying a score, or the request fails in one of four ways
\* (for "network" the outcome is that of the last attempt retryOperation makes).
ApiOutcomes(quota) ==
  IF quota THEN {[kind |-> "quota", score |-> 0]}
  ELSE {[kind |-> "ok", score |-> s] : s \in Scores}
         \cup {[kind |-> f, score |-> 0] : f \in Failures}

Value(s) == [kind |-> "value", score |-> s]
Throw == [kind |-> "throw", score |-> 0]
Null == [kind |-> "null", score |-> 0]

\* services/geminiService.ts: getAI throws without a key, a rejected request
\* and a JSON.parse failure are rethrown.
AnalyzeAndApplyStrict(outcome) ==
  IF outcome.kind = "ok" THEN Value(outcome.score) ELSE Throw

\* The facade built on runSmartAgent: no key, a quota error and an error that
\* outlasts the retries all yield the local fallback result; an unparseable
\* answer makes extractJSON, and so the facade, return null.
AnalyzeAndApplySmart(outcome, local) ==
  CASE outcome.kind = "ok" -> Value(outcome.score)
    [] outcome.kind = "malformed" -> Null
    [] OTHER -> Value(local)

AnalyzeAndApply(f, outcome, local) ==
  IF f = "strict" THEN AnalyzeAndApplyStrict(outcome)
  ELSE AnalyzeAndApplySmart(outcome, local)

Results ==
  {AnalyzeAndApply(facade, o, l) : o \in ApiOutcomes(quotaOnly), l \in FallbackScores}

\* ------------------------------------------------------------------ Init
\* No facade or adapter function is under study.
Idle == [fn |-> "none"]

\* No card is being dragged and no interview prep is being generated.
NoBoard == [dragged |-> 0, prep |-> {}, moves |-> 0, during |-> {}]

InitialQueues(n) ==
  {q \in [1..n -> {"new", "applied"}] : TRUE}

QueueOf(q) ==
  [i \in DOMAIN q |-> IF q[i] = "new" THEN NewJob(i) ELSE AppliedJob(i)]

InitWith(queue, quota) ==
  /\ jobs = queue
  /\ isRunning = FALSE
  /\ logs = <<>>
  /\ pending = FALSE
  /\ closures = {}
  /\ facade \in {"strict", "smart"}
  /\ quotaOnly = quota
  /\ hist = [i \in DOMAIN queue |-> {queue[i].status}]
  /\ board = NoBoard
  /\ lastOp = [name |-> "init", idx |-> 0, score |-> NoScore]
  /\ storage = <<>>
  /\ saveTimer = <<>>
  /\ io = Idle

Init == \E q \in InitialQueues(MaxJobs) : InitWith(QueueOf(q), FALSE)

\* --------------------------------------------------------------- actions
Step(name, idx, score) ==
  /\ hist' = Record(hist, jobs')
  /\ UNCHANGED <<storage, saveTimer, io, board>>
  /\ lastOp' = [name |-> name, idx |-> idx, score |-> score]

\* onClick={() => setIsRunning(true)}, the button shown while !isRunning
Start ==
  /\ ~isRunning
  /\ isRunning' = TRUE
  /\ pending' = TRUE
  /\ UNCHANGED <<jobs, logs, closures, facade, quotaOnly>>
  /\ Step("start", 0, NoScore)

\* onClick={() => setIsRunning(false)}, the button shown while isRunning
Pause ==
  /\ isRunning
  /\ isRunning' = FALSE
  /\ pending' = TRUE
  /\ UNCHANGED <<jobs, logs, closures, facade, quotaOnly>>
  /\ Step("pause", 0, NoScore)

\* processNextJob up to its first await, run in a closure that captured
\* cRunning and cJobs; self is the suspended invocation that results.
\* The state setters act on the current state, the reads on the captured one.
ProcessNextJob(cRunning, cJobs, others, self, fromTimer) ==
  IF ~cRunning
  THEN /\ closures' = others
       /\ pending' = FALSE
       /\ UNCHANGED <<jobs, isRunning, logs>>
       /\ Step("idle", 0, NoScore)
  ELSE LET jobIndex == FindIndexNew(cJobs) IN
    IF jobIndex = 0
    THEN /\ Len(logs) < LogBound
         /\ isRunning' = FALSE
         /\ logs' = AddLog(logs, "queue_empty", "info")
         /\ closures' = others
         /\ pending' = TRUE
         /\ UNCHANGED jobs
         /\ Step("queue_empty", 0, NoScore)
    ELSE LET job == cJobs[jobIndex] IN
         /\ Len(logs) < LogBound
         /\ jobs' = SetAt(jobs, jobIndex, [job EXCEPT !.status = "analyzing"])
         /\ logs' = AddLog(logs, "analyzing", "info")
         /\ closures' = others \cup {[self EXCEPT !.pc = "delay"]}
         /\ pending' = TRUE
         /\ UNCHANGED isRunning
         /\ Step(IF fromTimer THEN "repick" ELSE "pick", jobIndex, NoScore)

\* A commit whose isRunning or jobs differ from the last one: the cleanup of
\* the previous effect instance, then the effect body in a new closure.
Effect ==
  /\ pending
  /\ ProcessNextJob(isRunning, jobs, Cleanup(closures),
                    [jobs |-> jobs, isRunning |-> isRunning, pc |-> "delay", live |-> TRUE],
                    FALSE)
  /\ UNCHANGED <<facade, quotaOnly>>

\* await new Promise(r => setTimeout(r, 1500)) ends and analyzeAndApply(job,
\* profile) is called.  A pending commit is flushed before a timer expires.
DelayElapsed(c) ==
  /\ ~pending
  /\ c.pc = "delay"
  /\ closures' = (closures \ {c}) \cup {[c EXCEPT !.pc = "call"]}
  /\ UNCHANGED <<jobs, isRunning, logs, pending, facade, quotaOnly>>
  /\ Step("call", FindIndexNew(c.jobs), NoScore)

\* The record written when the analysis is below the threshold.
SkippedRecord(job, analysis) ==
  [job EXCEPT !.status = "skipped",
              !.matchScore = <<analysis.score>>,
              !.applicationNotes = "skipped"]

\* The record written when the analysis reaches the threshold.
AppliedRecord(job, analysis) ==
  [job EXCEPT !.status = "applied",
              !.matchScore = <<analysis.score>>,
              !.generatedCoverLetter = TRUE,
              !.applicationNotes = "ready"]

FailedRecordNoNote(job) == [job EXCEPT !.status = "failed"]

\* The record written by the catch branch.
FailedRecord(job) ==
  [job EXCEPT !.status = "failed", !.applicationNotes = "error"]

LowMatchInclusive(analysis) == analysis.score <= Threshold

\* if (analysis.matchScore < 60)
LowMatch(analysis) == analysis.score < Threshold

\* analyzeAndApply resolves with an analysis: the threshold branch, then the
\* 2 second timer for the next iteration is set.
CallReturns(c) ==
  /\ ~pending
  /\ c.pc = "call"
  /\ Len(logs) < LogBound
  /\ \E analysis \in Results :
       /\ analysis.kind = "value"
       /\ LET jobIndex == FindIndexNew(c.jobs)
              job == c.jobs[jobIndex]
          IN IF LowMatch(analysis)
             THEN /\ jobs' = SetAt(jobs, jobIndex, SkippedRecord(job, analysis))
                  /\ logs' = AddLog(logs, "skipped", "info")
                  /\ Step("return", jobIndex, <<analysis.score>>)
             ELSE /\ jobs' = SetAt(jobs, jobIndex, AppliedRecord(job, analysis))
                  /\ logs' = AddLog(logs, "success", "success")
                  /\ Step("return", jobIndex, <<analysis.score>>)
  /\ closures' = (closures \ {c}) \cup {[c EXCEPT !.pc = "timer"]}
  /\ pending' = TRUE
  /\ UNCHANGED <<isRunning, facade, quotaOnly>>

\* analyzeAndApply rejects, or resolves with null so that reading
\* analysis.matchScore throws: the catch branch, then the timer is set.
CallThrows(c) ==
  /\ ~pending
  /\ c.pc = "call"
  /\ Len(logs) < LogBound
  /\ \E analysis \in Results : analysis.kind \in {"throw", "null"}
  /\ LET jobIndex == FindIndexNew(c.jobs)
         job == c.jobs[jobIndex]
     IN /\ jobs' = SetAt(jobs, jobIndex, FailedRecord(job))
        /\ Step("throw", jobIndex, NoScore)
  /\ logs' = AddLog(logs, "error", "error")
  /\ closures' = (closures \ {c}) \cup {[c EXCEPT !.pc = "timer"]}
  /\ pending' = TRUE
  /\ UNCHANGED <<isRunning, facade, quotaOnly>>

\* timeout = setTimeout(processNextJob, 2000) expires: processNextJob runs
\* again in the closure that set the timer.
TimerFires(c) ==
  /\ ~pending
  /\ c.pc = "timer"
  /\ ProcessNextJob(c.isRunning, c.jobs, closures \ {c}, c, TRUE)
  /\ UNCHANGED <<facade, quotaOnly>>

Next ==
  \/ Start
  \/ Pause
  \/ Effect
  \/ \E c \in closures : DelayElapsed(c)
  \/ \E c \in closures : CallReturns(c)
  \/ \E c \in closures : CallThrows(c)
  \/ \E c \in closures : TimerFires(c)

Spec == Init /\ [][Next]_vars

\* The runs in which the user starts the loop and never pauses it.
NextLeftRunning ==
  \/ Start
  \/ Effect
  \/ \E c \in closures : DelayElapsed(c)
  \/ \E c \in closures : CallReturns(c)
  \/ \E c \in closures : CallThrows(c)
  \/ \E c \in closures : TimerFires(c)

SpecLeftRunning == Init /\ [][NextLeftRunning]_vars

\* The end-to-end scenario: three new records, and an external API that
\* answers every request with a quota error.
InitQuota == InitWith([i \in 1..3 |-> NewJob(i)], TRUE)

SpecQuota == InitQuota /\ [][NextLeftRunning]_vars

\* ------------------------------------------------------- addJobsToQueue
Urls == 1..MaxUrls

\* A batch of discovered or manually entered listings, given by their urls.
Batches == UNION {[1..n -> Urls] : n \in 1..MaxBatch}

Listing(i, u) == [NewJob(i) EXCEPT !.url = u]

\* const existingIds = new Set(prev.map(j => j.url));
\* const filtered = newJobs.filter(j => !existingIds.has(j.url));
Filtered(prev, batch) ==
  LET existingIds == {prev[k].url : k \in 1..Len(prev)}
      Novel(u) == u \notin existingIds
  IN SelectSeq(batch, Novel)

MergeReplacing(prev, batch) ==
  LET filtered == Filtered(prev, batch)
  IN [k \in 1..Len(filtered) |-> Listing(k, filtered[k])]

\* return [...prev, ...filtered]
Merge(prev, batch) ==
  LET filtered == Filtered(prev, batch)
  IN prev \o [k \in 1..Len(filtered) |-> Listing(Len(prev) + k, filtered[k])]

\* addJobsToQueue(newJobs): the merge, then the log entry.
AddJobsToQueue(batch) ==
  /\ Len(logs) < LogBound
  /\ Len(jobs) + Len(batch) <= MaxQueue
  /\ jobs' = Merge(jobs, batch)
  /\ logs' = AddLog(logs, "added", "info")
  /\ pending' = TRUE
  /\ hist' = Record(hist, jobs')
  /\ lastOp' = [name |-> "add", idx |-> 0, score |-> NoScore]
  /\ io' = [fn |-> "addJobsToQueue", in |-> batch]
  /\ UNCHANGED <<isRunning, closures, facade, quotaOnly, storage, saveTimer,
                 board>>

InitQueue == InitWith(<<>>, FALSE)

NextQueue ==
  \/ \E batch \in Batches : AddJobsToQueue(batch)
  \/ Effect

SpecQueue == InitQueue /\ [][NextQueue]_vars

\* ------------------------------------------- the loop after a restart
\* A record that was persisted while its classification was in flight.
AnalyzingJob(i) == [NewJob(i) EXCEPT !.status = "analyzing"]

\* The state after the load effect: the stored records, isAutoPilotRunning
\* at its default, and no invocation of processNextJob of the old page.
InitResumed ==
  \E q \in [1..MaxJobs -> {"new", "analyzing", "applied"}] :
     InitWith([i \in 1..MaxJobs |->
                 CASE q[i] = "new" -> NewJob(i)
                   [] q[i] = "analyzing" -> AnalyzingJob(i)
                   [] OTHER -> AppliedJob(i)], FALSE)

\* One click on Start after the page has loaded, then the loop on its own.
NextResumed ==
  \/ lastOp.name = "init" /\ Start
  \/ Effect
  \/ \E c \in closures : DelayElapsed(c)
  \/ \E c \in closures : CallReturns(c)
  \/ \E c \in closures : CallThrows(c)
  \/ \E c \in closures : TimerFires(c)

\* Every effect, promise and timer that can run does run.
SpecResumed ==
  /\ InitResumed
  /\ [][NextResumed]_vars
  /\ WF_vars(Effect)
  /\ \A pc \in {"delay", "call", "timer"} :
       WF_vars(\E c \in closures : c.pc = pc /\ (DelayElapsed(c) \/ CallReturns(c)
                                                  \/ CallThrows(c) \/ TimerFires(c)))

\* --------------------------------------------------------- manual entry
\* The url a listing gets when none is given: '#'.
Hash == 0

\* The url handleManualAdd builds from company and title.
SearchUrl == 0 - 1

\* What the user typed into the form; "" is a field left empty.
Forms == [title : {"", "t"}, company : {"", "c"}, url : {""} \cup {"u"}]

\* manualJob.url || fallback, with the typed url "u" standing for Urls[1].
UrlOrDefault(form, fallback) == IF form.url = "" THEN fallback ELSE 1

\* handleManualSubmit of JobSearch (fallback '#') and handleManualAdd of the
\* other build of the search view (fallback: a search url).
HandleManual(form, fallback) ==
  /\ form.title # ""
  /\ form.company # ""
  /\ AddJobsToQueue(<<UrlOrDefault(form, fallback)>>)

\* The queue is empty, or holds a listing the AI search returned without a
\* url (url: j.url || '#').
InitManual ==
  \E queue \in {<<>>, <<Listing(1, Hash)>>} : InitWith(queue, FALSE)

NextManual ==
  \/ \E form \in Forms : HandleManual(form, Hash)
  \/ \E form \in Forms : HandleManual(form, SearchUrl)
  \/ Effect

SpecManual == InitManual /\ [][NextManual]_vars

\* ---------------------------------------------------------- KanbanBoard
COLUMNS == {"applied", "interviewing", "offer", "rejected"}

\* A classification is in flight: an invocation of processNextJob is
\* suspended before its result is written.
Classifying == {c \in closures : c.pc \in {"delay", "call"}}

\* setJobs(prev => prev.map(j => j.id === jobId ? { ...j, status: newStatus } : j))
MapStatus(prev, jobId, newStatus) ==
  [k \in DOMAIN prev |->
     IF prev[k].id = jobId THEN [prev[k] EXCEPT !.status = newStatus] ELSE prev[k]]

\* newStatus === 'interviewing', and the job is found without interviewPrep
NeedsPrep(js, jobId, newStatus) ==
  /\ newStatus = "interviewing"
  /\ \E k \in DOMAIN js : js[k].id = jobId /\ ~js[k].interviewPrep

\* updateJobStatus(jobId, newStatus) up to its await.  The board is shown in
\* place of the AutoPilot view, so no effect of AutoPilot runs for it.
UpdateJobStatus(jobId, newStatus, name) ==
  /\ jobs' = MapStatus(jobs, jobId, newStatus)
  /\ board' = [dragged |-> 0,
               prep |-> IF NeedsPrep(jobs, jobId, newStatus)
                        THEN board.prep \cup {jobId} ELSE board.prep,
               moves |-> board.moves + 1,
               during |-> IF Classifying # {}
                          THEN board.during \cup {<<jobId, newStatus>>}
                          ELSE board.during]
  /\ hist' = Record(hist, jobs')
  /\ lastOp' = [name |-> name, idx |-> jobId, score |-> NoScore]
  /\ UNCHANGED <<isRunning, logs, pending, closures, facade, quotaOnly, storage,
                 saveTimer, io>>

\* onDragStart of a card; the cards are the records of the four columns.
HandleDragStart(k) ==
  /\ board.moves < MaxMoves
  /\ board.dragged = 0
  /\ jobs[k].status \in COLUMNS
  /\ board' = [board EXCEPT !.dragged = jobs[k].id]
  /\ lastOp' = [name |-> "drag", idx |-> k, score |-> NoScore]
  /\ UNCHANGED <<jobs, isRunning, logs, pending, closures, facade, quotaOnly,
                 hist, storage, saveTimer, io>>

\* onDrop of a column: the id comes from the drag data.
HandleDrop(column) ==
  /\ board.dragged # 0
  /\ UpdateJobStatus(board.dragged, column, "drop")

\* The 'Move & Prep' button of a card in the column 'applied'.
MoveAndPrep(k) ==
  /\ board.moves < MaxMoves
  /\ board.dragged = 0
  /\ jobs[k].status = "applied"
  /\ UpdateJobStatus(jobs[k].id, "interviewing", "move")

\* generateInterviewQuestions resolves:
\* setJobs(prev => prev.map(j => j.id === jobId ? { ...j, interviewPrep: questions } : j))
PrepGenerated(jobId) ==
  /\ jobId \in board.prep
  /\ jobs' = [k \in DOMAIN jobs |->
               IF jobs[k].id = jobId THEN [jobs[k] EXCEPT !.interviewPrep = TRUE]
               ELSE jobs[k]]
  /\ board' = [board EXCEPT !.prep = board.prep \ {jobId}]
  /\ hist' = Record(hist, jobs')
  /\ lastOp' = [name |-> "prep", idx |-> jobId, score |-> NoScore]
  /\ UNCHANGED <<isRunning, logs, pending, closures, facade, quotaOnly, storage,
                 saveTimer, io>>

\* generateInterviewQuestions rejects: the catch block only logs to the console.
PrepFails(jobId) ==
  /\ jobId \in board.prep
  /\ board' = [board EXCEPT !.prep = board.prep \ {jobId}]
  /\ lastOp' = [name |-> "prep_failed", idx |-> jobId, score |-> NoScore]
  /\ UNCHANGED <<jobs, isRunning, logs, pending, closures, facade, quotaOnly,
                 hist, storage, saveTimer, io>>

\* Two new records in the queue; the user works with the search view, the
\* AutoPilot view and the board while the loop runs.
InitApp == InitWith(<<NewJob(1), NewJob(2)>>, FALSE)

NextApp ==
  \/ NextLeftRunning
  \/ \E u \in {1, MaxQueue} : AddJobsToQueue(<<u>>)
  \/ \E k \in DOMAIN jobs : HandleDragStart(k)
  \/ \E column \in COLUMNS : HandleDrop(column)
  \/ \E k \in DOMAIN jobs : MoveAndPrep(k)
  \/ \E jobId \in board.prep : PrepGenerated(jobId)
  \/ \E jobId \in board.prep : PrepFails(jobId)

SpecApp == InitApp /\ [][NextApp]_vars

\* The same, with the user also pausing the loop.
NextAppPaused ==
  \/ NextApp
  \/ Pause

SpecAppPaused == InitApp /\ [][NextAppPaused]_vars

\* ---------------------------------------------------------- persistence
FirstEntries(ls, n) == SubSeq(ls, 1, IF Len(ls) < n THEN Len(ls) ELSE n)

\* ls.slice(-n)
LastEntries(ls, n) ==
  SubSeq(ls, (IF Len(ls) < n THEN 0 ELSE Len(ls) - n) + 1, Len(ls))

\* What the save effect captures when it arms its timer.
Captured(js, ls) == [jobs |-> js, logs |-> ls]

\* JSON.stringify({ profile, jobs, logs: logs.slice(-50) })
Blob(cap) == [jobs |-> cap.jobs, logs |-> LastEntries(cap.logs, Retention)]

\* Some handler calls addLog; the commit that follows runs the cleanup of
\* the save effect (clearTimeout) and arms a new 1 s timer that captures the
\* state of that render.
LogEvent ==
  /\ Len(logs) < Retention + MaxOverflow
  /\ logs' = AddLog(logs, "event", "info")
  /\ saveTimer' = <<Captured(jobs, logs')>>
  /\ lastOp' = [name |-> "log", idx |-> 0, score |-> NoScore]
  /\ UNCHANGED <<jobs, isRunning, pending, closures, facade, quotaOnly, hist, board,
                 storage, io>>

\* The 1 s timer of the save effect expires: localStorage.setItem.
SaveFires ==
  /\ saveTimer # <<>>
  /\ storage' = <<Blob(saveTimer[1])>>
  /\ saveTimer' = <<>>
  /\ lastOp' = [name |-> "save", idx |-> 0, score |-> NoScore]
  /\ UNCHANGED <<jobs, isRunning, logs, pending, closures, facade, quotaOnly,
                 hist, board, io>>

\* After mount with nothing stored: the save effect has armed its first timer.
InitPersist ==
  /\ jobs = <<>>
  /\ isRunning = FALSE
  /\ logs = <<>>
  /\ pending = FALSE
  /\ closures = {}
  /\ facade \in {"strict", "smart"}
  /\ quotaOnly = FALSE
  /\ hist = <<>>
  /\ board = NoBoard
  /\ lastOp = [name |-> "init", idx |-> 0, score |-> NoScore]
  /\ storage = <<>>
  /\ saveTimer = <<Captured(<<>>, <<>>)>>
  /\ io = Idle

NextPersist ==
  \/ LogEvent
  \/ SaveFires

SpecPersist == InitPersist /\ [][NextPersist]_vars

\* ------------------------------------------------- load after a restart
\* matchScore of a record as JSON sees it: no such property, a finite
\* number (its decimal text), NaN, or null.
Undefined == "undefined"

\* JSON.stringify of a property value: NaN becomes null, a property that is
\* undefined is left out, and JSON.parse gives back what the text holds.
JsonRoundTrip(v) == IF v = "NaN" THEN "null" ELSE v

\* A Date of the program (its time value), and its toISOString() text.
DateOf(ms) == [date |-> ms]

ToISOString(d) == [iso |-> d.date]

\* new Date(text) for an ISO text.
NewDate(text) == [date |-> text.iso]

StringifyJobs(js) ==
  [k \in DOMAIN js |-> [js[k] EXCEPT !.matchScore = JsonRoundTrip(js[k].matchScore)]]

StringifyLogs(ls) ==
  [k \in DOMAIN ls |-> [ls[k] EXCEPT !.timestamp = ToISOString(ls[k].timestamp)]]

\* parsed.logs.map(l => ({...l, timestamp: new Date(l.timestamp)}))
ReviveLogs(ls) ==
  [k \in DOMAIN ls |-> [ls[k] EXCEPT !.timestamp = NewDate(ls[k].timestamp)]]

\* The state a render of App holds, as the save effect captures it.
AppState(profile, js, ls) == [profile |-> profile, jobs |-> js, logs |-> ls]

\* useState of profile, jobs and logs.
DefaultState == AppState("", <<>>, <<>>)

\* JSON.parse(JSON.stringify({ profile, jobs, logs: logs.slice(-50) }))
Serialize(state) ==
  [profile |-> state.profile,
   jobs |-> StringifyJobs(state.jobs),
   logs |-> StringifyLogs(LastEntries(state.logs, Retention))]

\* The records a session can leave in the list: new, in flight, skipped or
\* applied with the score of the analysis, which is NaN when the local
\* scoring found no keyword in the job description.
SessionRecords ==
  {[status |-> "new", matchScore |-> Undefined],
   [status |-> "analyzing", matchScore |-> Undefined],
   [status |-> "skipped", matchScore |-> "45"],
   [status |-> "applied", matchScore |-> "NaN"]}

SessionJobs ==
  UNION {{[k \in 1..n |-> [id |-> k, status |-> f[k].status,
                            matchScore |-> f[k].matchScore]] :
            f \in [1..n -> SessionRecords]} : n \in 0..MaxSaved}

SessionLogs(n) ==
  [k \in 1..n |-> [message |-> "event", type |-> "info", timestamp |-> DateOf(k)]]

\* What App keeps in io: the profile state, whether the first commit's
\* effects have run, and the history the properties read.
AppIo(profile, pc, saved, loads, edits) ==
  [fn |-> "App", profile |-> profile, pc |-> pc, saved |-> saved,
   loads |-> loads, edits |-> edits]

Current == AppState(io.profile, jobs, logs)

KeepTimers(timers) == timers

\* return () => clearTimeout(timeout)
ClearTimeout(timers) == <<>>

\* The commit after a state change: the cleanup of the save effect, then
\* its body arms a timer that captures the state of this render.
SaveEffect ==
  /\ io.fn = "App" /\ io.pc = "ready"
  /\ pending
  /\ saveTimer' = Append(ClearTimeout(saveTimer), Current)
  /\ pending' = FALSE
  /\ lastOp' = [name |-> "commit", idx |-> 0, score |-> NoScore]
  /\ UNCHANGED <<jobs, isRunning, logs, closures, facade, quotaOnly, hist, board,
                 storage, io>>

\* A 1 s timer of the save effect expires; a pending commit is flushed
\* before a timer expires.
SaveTimerExpires ==
  /\ io.fn = "App"
  /\ ~pending
  /\ saveTimer # <<>>
  /\ storage' = <<Serialize(saveTimer[1])>>
  /\ saveTimer' = Tail(saveTimer)
  /\ io' = [io EXCEPT !.saved = <<saveTimer[1]>>]
  /\ lastOp' = [name |-> "save", idx |-> 0, score |-> NoScore]
  /\ UNCHANGED <<jobs, isRunning, logs, pending, closures, facade, quotaOnly,
                 hist, board>>

\* The page is closed and opened again: the first render of App, with the
\* default state, before its effects run.  Timers die with the page.
Reopen ==
  /\ io.fn = "App" /\ io.pc = "ready"
  /\ storage # <<>>
  /\ io.loads < MaxLoads
  /\ jobs' = DefaultState.jobs
  /\ logs' = DefaultState.logs
  /\ io' = [io EXCEPT !.profile = DefaultState.profile, !.pc = "mount"]
  /\ saveTimer' = <<>>
  /\ pending' = FALSE
  /\ lastOp' = [name |-> "reopen", idx |-> 0, score |-> NoScore]
  /\ UNCHANGED <<isRunning, closures, facade, quotaOnly, hist, board, storage>>

\* The effects of the first commit, in the order of the source: the load
\* effect sets the three states from the stored blob, the save effect arms
\* its first timer with the state of the first render.
MountEffects ==
  /\ io.fn = "App" /\ io.pc = "mount"
  /\ LET parsed == storage[1] IN
     /\ jobs' = parsed.jobs
     /\ logs' = ReviveLogs(parsed.logs)
     /\ io' = [io EXCEPT !.profile = parsed.profile, !.pc = "ready",
                         !.loads = io.loads + 1]
  /\ saveTimer' = <<Current>>
  /\ pending' = TRUE
  /\ lastOp' = [name |-> "load", idx |-> 0, score |-> NoScore]
  /\ UNCHANGED <<isRunning, closures, facade, quotaOnly, hist, board, storage>>

\* The user edits the profile form: setProfile.
EditProfile ==
  /\ io.fn = "App" /\ io.pc = "ready"
  /\ io.edits < MaxEdits
  /\ io' = [io EXCEPT !.profile = "edited", !.edits = io.edits + 1]
  /\ pending' = TRUE
  /\ lastOp' = [name |-> "edit", idx |-> 0, score |-> NoScore]
  /\ UNCHANGED <<jobs, isRunning, logs, closures, facade, quotaOnly, hist, board,
                 storage, saveTimer>>

\* A session in progress: some state, and the save timer armed with it.
InitReload ==
  /\ jobs \in SessionJobs
  /\ \E n \in {0, 1, Retention + MaxOverflow} : logs = SessionLogs(n)
  /\ isRunning = FALSE
  /\ pending = FALSE
  /\ closures = {}
  /\ facade = "smart"
  /\ quotaOnly = FALSE
  /\ hist = <<>>
  /\ board = NoBoard
  /\ lastOp = [name |-> "init", idx |-> 0, score |-> NoScore]
  /\ storage = <<>>
  /\ io = AppIo("user", "ready", <<>>, 0, 0)
  /\ saveTimer = <<Current>>

NextReload ==
  \/ SaveEffect
  \/ SaveTimerExpires
  \/ Reopen
  \/ MountEffects
  \/ EditProfile

SpecReload == InitReload /\ [][NextReload]_vars

\* ------------------------------------- retryOperation and runSmartAgent
\* An error of the external call: what its message contains and its status.
ApiErrors == [m429 : BOOLEAN, mQuota : BOOLEAN, s429 : BOOLEAN]

NoError == [m429 |-> FALSE, mQuota |-> FALSE, s429 |-> FALSE]

\* What one call of the operation does: the answer parses to an analysis
\* with a score, the answer does not parse (extractJSON gives null), or the
\* call rejects with an error.
OpOutcomes ==
  {[kind |-> "ok", score |-> s, err |-> NoError] : s \in {Threshold - 1, Threshold}}
    \cup {[kind |-> "malformed", score |-> 0, err |-> NoError]}
    \cup {[kind |-> "error", score |-> 0, err |-> e] : e \in ApiErrors}

\* The outcomes of the successive calls of the operation.
Scripts == [1..Retries -> OpOutcomes]

IsRateLimitStatusOnly(err) == err.s429

\* err.message?.includes('429') || err.message?.includes('quota') || err.status === 429
IsRateLimit(err) == err.m429 \/ err.mQuota \/ err.s429

Rejected(err) == [kind |-> "throw", score |-> 0, err |-> err]

Resolved(res) == [kind |-> res.kind, score |-> res.score, err |-> NoError]

\* The value the operation of analyzeAndApply resolves with:
\* extractJSON(res.text || '{}').
ApiCallValue(outcome) ==
  IF outcome.kind = "ok" THEN Value(outcome.score) ELSE Null

CatchRethrowsOthers(err, local) ==
  IF IsRateLimit(err) THEN Resolved(Value(local)) ELSE Rejected(err)

\* The catch block of runSmartAgent: fallbackLogic() on either branch.
AgentCatch(err, local) ==
  IF IsRateLimit(err) THEN Resolved(Value(local)) ELSE Resolved(Value(local))

FacadeInputs ==
  [variant : {"smart", "safe"}, hasKey : BOOLEAN, script : Scripts,
   local : FallbackScores]

\* analyzeAndApply(job, profile) has been called and has not run yet.
Called(in) ==
  [fn |-> "analyzeAndApply", in |-> in, pc |-> "start", i |-> 0, calls |-> 0,
   retry |-> Resolved(Null), out |-> Resolved(Null)]

\* runSmartAgent up to retryOperation: const ai = getAI();
\* if (!ai) return fallbackLogic();
AgentStart ==
  /\ io.fn = "analyzeAndApply" /\ io.pc = "start" /\ io.in.variant = "smart"
  /\ io' = IF ~io.in.hasKey
           THEN [io EXCEPT !.pc = "done", !.out = Resolved(Value(io.in.local))]
           ELSE [io EXCEPT !.pc = "try"]

\* One pass of the loop of retryOperation: the call and its catch block.
Attempt ==
  /\ io.fn = "analyzeAndApply" /\ io.pc = "try"
  /\ io.i < Retries
  /\ LET outcome == io.in.script[io.calls + 1]
         called == [io EXCEPT !.calls = io.calls + 1]
     IN io' =
          IF outcome.kind # "error"
          THEN [called EXCEPT !.pc = "settled", !.retry = Resolved(ApiCallValue(outcome))]
          ELSE IF io.i = Retries - 1
          THEN [called EXCEPT !.pc = "settled", !.retry = Rejected(outcome.err)]
          ELSE IF IsRateLimit(outcome.err)
          THEN [called EXCEPT !.pc = "settled", !.retry = Rejected(outcome.err)]
          ELSE [called EXCEPT !.pc = "backoff"]

\* await delay(1000 * Math.pow(2, i)) ends; i++
Backoff ==
  /\ io.fn = "analyzeAndApply" /\ io.pc = "backoff"
  /\ io' = [io EXCEPT !.pc = "try", !.i = io.i + 1]

\* runSmartAgent after retryOperation has settled: return its value, or the
\* catch block.
AgentSettle ==
  /\ io.fn = "analyzeAndApply" /\ io.pc = "settled"
  /\ io' = [io EXCEPT !.pc = "done",
                      !.out = IF io.retry.kind = "throw"
                              THEN AgentCatch(io.retry.err, io.in.local)
                              ELSE io.retry]

\* The facade without runSmartAgent: getAI throws without a key, one call,
\* an error is rethrown, and a missing field gets its default.
AnalyzeSafe ==
  /\ io.fn = "analyzeAndApply" /\ io.pc = "start" /\ io.in.variant = "safe"
  /\ LET outcome == io.in.script[1] IN
     io' = IF ~io.in.hasKey
           THEN [io EXCEPT !.pc = "done", !.out = Rejected(NoError)]
           ELSE [io EXCEPT
                   !.pc = "done", !.calls = 1,
                   !.out = CASE outcome.kind = "ok" -> Resolved(Value(outcome.score))
                             [] outcome.kind = "malformed" -> Resolved(Value(DefaultScore))
                             [] OTHER -> Rejected(outcome.err)]

InitFacade ==
  /\ jobs = <<>>
  /\ isRunning = FALSE
  /\ logs = <<>>
  /\ pending = FALSE
  /\ closures = {}
  /\ facade = "smart"
  /\ quotaOnly = FALSE
  /\ hist = <<>>
  /\ board = NoBoard
  /\ lastOp = [name |-> "init", idx |-> 0, score |-> NoScore]
  /\ storage = <<>>
  /\ saveTimer = <<>>
  /\ \E in \in FacadeInputs : io = Called(in)

Others == <<jobs, isRunning, logs, pending, closures, facade, quotaOnly, hist, board,
            lastOp, storage, saveTimer>>

NextFacade ==
  \/ AgentStart /\ UNCHANGED Others
  \/ Attempt /\ UNCHANGED Others
  \/ Backoff /\ UNCHANGED Others
  \/ AgentSettle /\ UNCHANGED Others
  \/ AnalyzeSafe /\ UNCHANGED Others

SpecFacade == InitFacade /\ [][NextFacade]_vars

\* ------------------------------------- the local scoring
\* The words a text is made of, as they are typed.
Vocabulary == {"React,", "java", "javascript", "the", "go", "2024"}

STOP_WORDS == {"the"}

AllDigits == {"2024"}

\* toLowerCase() of a word.
ToLowerCase(w) == IF w = "React," THEN "react," ELSE w

\* replace(/[^\w\s]/g, '') of a lower-cased word.
StripPunctuation(w) == IF w = "react," THEN "react" ELSE w

\* haystack.includes(needle) for one lower-cased word as the haystack.
WordIncludes(haystack, needle) ==
  \/ haystack = needle
  \/ haystack = "javascript" /\ needle = "java"
  \/ haystack = "react," /\ needle = "react"

Texts(n) == UNION {[1..k -> Vocabulary] : k \in 0..n}

\* text.toLowerCase().replace(...).split(/\s+/)
Words(text) == [k \in DOMAIN text |-> StripPunctuation(ToLowerCase(text[k]))]

\* frequency[w] of the words that pass the filter.
Frequency(words, w) == Cardinality({k \in DOMAIN words : words[k] = w})

Counted(words) ==
  {words[k] : k \in {j \in DOMAIN words :
      /\ words[j] \notin STOP_WORDS
      /\ Len(words[j]) > MinLength
      /\ words[j] \notin AllDigits}}

\* The keywords of a text: the counted words, the 15 most frequent of them
\* when there are more.
ExtractKeywordsLocally(text) ==
  LET words == Words(text)
      all == Counted(words)
  IN IF Cardinality(all) <= MaxKeywords THEN all
     ELSE CHOOSE S \in SUBSET all :
            /\ Cardinality(S) = MaxKeywords
            /\ \A a \in S, b \in all \ S : Frequency(words, a) >= Frequency(words, b)

\* resumeLower.includes(k)
ResumeIncludes(resume, k) ==
  \E j \in DOMAIN resume : WordIncludes(ToLowerCase(resume[j]), k)

\* A number of the program: <<n>>, or NaN.
NaN == <<>>

Num(n) == <<n>>

\* Math.round(a / b * 100) for naturals a <= b; 0 / 0 is NaN.
RoundPercent(a, b) ==
  IF b = 0 THEN NaN ELSE Num((200 * a + b) \div (2 * b))

\* Math.max(lo, x) and Math.min(hi, x); either is NaN when x is.
MathMax(lo, x) == IF x = NaN THEN NaN ELSE Num(IF x[1] > lo THEN x[1] ELSE lo)

MathMin(hi, x) == IF x = NaN THEN NaN ELSE Num(IF x[1] < hi THEN x[1] ELSE hi)

Plus(x, n) == IF x = NaN THEN NaN ELSE Num(x[1] + n)

\* adjustedScore of optimizeResumeLocally for the keyword counts.
AdjustedScore(found, total) ==
  MathMin(FallbackMax, MathMax(FallbackMin, Plus(RoundPercent(found, total), Boost)))

FoundKeywords(jobDesc, resume) ==
  {k \in ExtractKeywordsLocally(jobDesc) : ResumeIncludes(resume, k)}

\* optimizeResumeLocally(jobDesc, resumeText) has been called and has not
\* run yet.
LocalCalled(jobDesc, resume) ==
  [fn |-> "optimizeResumeLocally", jobDesc |-> jobDesc, resume |-> resume,
   pc |-> "start", score |-> NaN]

OptimizeResumeLocally ==
  /\ io.fn = "optimizeResumeLocally" /\ io.pc = "start"
  /\ LET jobKeywords == ExtractKeywordsLocally(io.jobDesc)
         foundKeywords == FoundKeywords(io.jobDesc, io.resume)
     IN io' = [io EXCEPT
                 !.pc = "done",
                 !.score = AdjustedScore(Cardinality(foundKeywords),
                                         Cardinality(jobKeywords))]
  /\ UNCHANGED <<jobs, isRunning, logs, pending, closures, facade, quotaOnly,
                 hist, board, lastOp, storage, saveTimer>>

InitLocal ==
  /\ jobs = <<>>
  /\ isRunning = FALSE
  /\ logs = <<>>
  /\ pending = FALSE
  /\ closures = {}
  /\ facade = "smart"
  /\ quotaOnly = FALSE
  /\ hist = <<>>
  /\ board = NoBoard
  /\ lastOp = [name |-> "init", idx |-> 0, score |-> NoScore]
  /\ storage = <<>>
  /\ saveTimer = <<>>
  /\ \E jobDesc \in Texts(MaxWords), resume \in Texts(MaxResume) :
       io = LocalCalled(jobDesc, resume)

NextLocal == OptimizeResumeLocally

SpecLocal == InitLocal /\ [][NextLocal]_vars

\* ------------------------------------- the seniority filter
Levels ==
  {"Entry Level", "Associate", "Mid-Senior Level", "Director", "Executive",
   "Internship"}

\* The experienceLevel argument of getAggregatedJobs: a level, or undefined.
NoLevel == "undefined"

EXCLUSION_KEYWORDS(level) ==
  CASE level = "Entry Level" ->
         {"senior", "snr", "principal", "lead", "staff", "manager", "head of",
          "director", "vp", "architect", "expert", "founding", "chief", "sr."}
    [] level = "Associate" ->
         {"principal", "director", "vp", "head of", "chief", "architect"}
    [] level = "Mid-Senior Level" -> {"intern", "junior", "entry level", "graduate"}
    [] level = "Director" ->
         {"intern", "junior", "associate", "entry level", "mid-level"}
    [] level = "Executive" ->
         {"intern", "junior", "associate", "mid-level", "senior", "lead"}
    [] level = "Internship" ->
         {"senior", "lead", "principal", "staff", "manager", "architect", "head of"}
    [] OTHER -> {}

\* The titles of the fetched listings, in a fixed order.
Titles ==
  <<"Senior Backend Engineer", "Junior Backend Engineer", "Team Leader",
    "Backend Engineer">>

\* title.toLowerCase()
LowerTitle(title) ==
  CASE title = "Senior Backend Engineer" -> "senior backend engineer"
    [] title = "Junior Backend Engineer" -> "junior backend engineer"
    [] title = "Team Leader" -> "team leader"
    [] title = "Backend Engineer" -> "backend engineer"
    [] OTHER -> title

\* text.includes(keyword), case-sensitive, for the titles above and the
\* keywords of EXCLUSION_KEYWORDS.
TitleIncludes(text, keyword) ==
  \/ text = "senior backend engineer" /\ keyword = "senior"
  \/ text = "junior backend engineer" /\ keyword = "junior"
  \/ text = "team leader" /\ keyword = "lead"

DoesJobMatchLevelCaseSensitive(title, level) ==
  ~\E keyword \in EXCLUSION_KEYWORDS(level) : TitleIncludes(title, keyword)

DoesJobMatchLevel(title, level) ==
  ~\E keyword \in EXCLUSION_KEYWORDS(level) :
      TitleIncludes(LowerTitle(title), keyword)

\* How many listings of one title the two sources returned together.
Counts == {0, 1, MaxPerTitle}

\* [...remotive, ...jobicy] as the number of listings of each title.
Combined == [DOMAIN Titles -> Counts]

Total(bag) == bag[1] + bag[2] + bag[3] + bag[4]

\* combined.filter(job => doesJobMatchLevel(job.title, experienceLevel)),
\* applied only when experienceLevel is given.
FilterByLevel(bag, level) ==
  IF level = NoLevel THEN bag
  ELSE [k \in DOMAIN Titles |->
          IF DoesJobMatchLevel(Titles[k], level) THEN bag[k] ELSE 0]

PagesUnsliced(bag) == {bag}

\* shuffleArray(combined).slice(0, 50): any PageSize of the listings.
Pages(bag) ==
  IF Total(bag) <= PageSize THEN {bag}
  ELSE {<<a, b, c, PageSize - a - b - c>> :
          <<a, b, c>> \in {<<x, y, z>> \in (0..bag[1]) \X (0..bag[2]) \X (0..bag[3]) :
                             /\ PageSize - x - y - z >= 0
                             /\ PageSize - x - y - z <= bag[4]}}

NoListings == [k \in DOMAIN Titles |-> 0]

\* The list getHardcodedJobs() returns.
GetHardcodedJobs == <<[id |-> "mock-1", url |-> "#", status |-> "new"]>>

\* getAggregatedJobs(profileRole, experienceLevel) has been called and the
\* two sources have answered.
Fetched(level, combined) ==
  [fn |-> "getAggregatedJobs", level |-> level, combined |-> combined,
   pc |-> "start", kept |-> NoListings, hardcoded |-> FALSE, mock |-> <<>>]

GetAggregatedJobs ==
  /\ io.fn = "getAggregatedJobs" /\ io.pc = "start"
  /\ LET filtered == FilterByLevel(io.combined, io.level) IN
     IF Total(filtered) > 0
     THEN \E page \in Pages(filtered) :
            io' = [io EXCEPT !.pc = "done", !.kept = page]
     ELSE io' = [io EXCEPT !.pc = "done", !.hardcoded = TRUE,
                           !.mock = GetHardcodedJobs]
  /\ UNCHANGED <<jobs, isRunning, logs, pending, closures, facade, quotaOnly,
                 hist, board, lastOp, storage, saveTimer>>

InitSources ==
  /\ jobs = <<>>
  /\ isRunning = FALSE
  /\ logs = <<>>
  /\ pending = FALSE
  /\ closures = {}
  /\ facade = "smart"
  /\ quotaOnly = FALSE
  /\ hist = <<>>
  /\ board = NoBoard
  /\ lastOp = [name |-> "init", idx |-> 0, score |-> NoScore]
  /\ storage = <<>>
  /\ saveTimer = <<>>
  /\ \E level \in Levels \cup {NoLevel}, combined \in Combined :
       io = Fetched(level, combined)

NextSources == GetAggregatedJobs

SpecSources == InitSources /\ [][NextSources]_vars

\* ------------------------------------------------------------ statistics
CountStatus(js, S) == Cardinality({k \in DOMAIN js : js[k].status \in S})

StatsCountingFailed(js) ==
  [totalFound |-> Len(js),
   applied |-> CountStatus(js, {"applied"}),
   skipped |-> CountStatus(js, {"skipped", "failed"})]

\* The object the stats effect passes to setStats.
StatsOf(js) ==
  [totalFound |-> Len(js),
   applied |-> CountStatus(js, {"applied"}),
   skipped |-> CountStatus(js, {"skipped"})]

\* useState({ totalFound: 0, applied: 0, skipped: 0 }); the effect has not
\* run for any job list yet.
InitialStats ==
  [fn |-> "stats",
   stats |-> [totalFound |-> 0, applied |-> 0, skipped |-> 0],
   seen |-> <<>>]

\* The stats effect: it runs after mount and after every commit with a new
\* job list.
StatsEffect ==
  /\ io.fn = "stats"
  /\ io.seen # <<jobs>>
  /\ io' = [io EXCEPT !.stats = StatsOf(jobs), !.seen = <<jobs>>]
  /\ UNCHANGED <<jobs, isRunning, logs, pending, closures, facade, quotaOnly,
                 hist, board, lastOp, storage, saveTimer>>

InitStats ==
  /\ \E q \in InitialQueues(MaxJobs) : jobs = QueueOf(q)
  /\ isRunning = FALSE
  /\ logs = <<>>
  /\ pending = FALSE
  /\ closures = {}
  /\ facade \in {"strict", "smart"}
  /\ quotaOnly = FALSE
  /\ hist = [i \in DOMAIN jobs |-> {jobs[i].status}]
  /\ board = NoBoard
  /\ lastOp = [name |-> "init", idx |-> 0, score |-> NoScore]
  /\ storage = <<>>
  /\ saveTimer = <<>>
  /\ io = InitialStats

NextStats ==
  \/ NextLeftRunning
  \/ StatsEffect

SpecStats == InitStats /\ [][NextStats]_vars

TypeOK ==
  /\ isRunning \in BOOLEAN
  /\ pending \in BOOLEAN
  /\ \A i \in 1..Len(jobs) : jobs[i].status \in Status /\ jobs[i].id = i
  /\ \A i \in 1..Len(logs) : logs[i].type \in LogType
  /\ \A c \in closures : c.pc \in {"delay", "call", "timer"} /\ FindIndexNew(c.jobs) # 0

\* ------------------------------------------------------------ properties
WithStatus(S) == {i \in 1..Len(jobs) : jobs[i].status \in S}

InFlight == {c \in closures : c.pc \in {"delay", "call"}}

\* C1: every change of a record's status is new -> analyzing or
\* analyzing -> applied, skipped or failed; a record in a terminal status
\* never changes status again.
C1_StatusTransitions ==
  [][\A i \in 1..Len(jobs) :
       jobs'[i].status # jobs[i].status =>
         \/ jobs[i].status = "new" /\ jobs'[i].status = "analyzing"
         \/ jobs[i].status = "analyzing" /\ jobs'[i].status \in Terminal]_vars

\* C2: at most one record is analyzing, and at most one invocation is
\* waiting in the delay or in the analyzeAndApply call.
C2_SingleInFlight ==
  /\ Cardinality(WithStatus({"analyzing"})) <= 1
  /\ Cardinality(InFlight) <= 1

\* C3: a record passed to analyzeAndApply has never had a terminal status,
\* and a record moved to analyzing is the first new record of the list.
C3_NoReprocessAfterRestart ==
  [][/\ lastOp'.name = "call" => hist'[lastOp'.idx] \cap Terminal = {}
     /\ \A i \in 1..Len(jobs) :
          (jobs[i].status # "analyzing" /\ jobs'[i].status = "analyzing")
            => i = FindIndexNew(jobs)]_vars

\* C4: while isRunning is false no record goes from new to analyzing and no
\* iteration of processNextJob, whether run by the effect or by the timer,
\* gets past its isRunning check to start a classification.
C4_NothingStartsWhilePaused ==
  [][~isRunning =>
       /\ \A i \in 1..Len(jobs) :
            jobs[i].status = "new" => jobs'[i].status # "analyzing"
       /\ lastOp'.name \notin {"pick", "repick"}]_vars

\* C5: the record written for a returned score s is applied with matchScore s
\* and a cover letter when s >= 60, and skipped with matchScore s and no
\* cover letter when s < 60.
C5_ScoreThreshold ==
  lastOp.name = "return" =>
    LET j == jobs[lastOp.idx]
        s == lastOp.score[1]
    IN /\ j.matchScore = <<s>>
       /\ s >= 60 => j.status = "applied" /\ j.generatedCoverLetter
       /\ s < 60 => j.status = "skipped" /\ ~j.generatedCoverLetter

C5_Witness ==
  /\ lastOp.name = "return"
  /\ lastOp.score = <<Threshold>>
  /\ jobs[lastOp.idx].status = "applied"
  /\ \E i \in 1..Len(jobs) : jobs[i].status = "skipped" /\ jobs[i].matchScore = <<Threshold - 1>>

\* C6: the step that handles a throw of analyzeAndApply sets the in-flight
\* record to failed with the note 'AI Service Error', leaves every other
\* record as it is, appends one log entry of type error and leaves isRunning
\* as it is.
C6_FailureIsolated ==
  [][lastOp'.name = "throw" =>
       LET i == lastOp'.idx IN
       /\ jobs'[i].status = "failed"
       /\ jobs'[i].applicationNotes = "error"
       /\ Len(jobs') = Len(jobs)
       /\ \A k \in 1..Len(jobs) : k # i => jobs'[k] = jobs[k]
       /\ Len(logs') = Len(logs) + 1
       /\ logs'[Len(logs')].type = "error"
       /\ SubSeq(logs', 1, Len(logs)) = logs
       /\ isRunning' = isRunning]_vars

C6_Witness ==
  /\ lastOp.name = "throw"
  /\ jobs[lastOp.idx].status = "failed"
  /\ \E k \in 1..Len(jobs) : k # lastOp.idx /\ jobs[k].status = "analyzing"

\* C7: a record that has been failed is not passed to analyzeAndApply again.
C7_FailedNotRetried ==
  lastOp.name = "call" => "failed" \notin hist[lastOp.idx]

\* C8: when the loop has just cleared isRunning and logged the completion,
\* no record is new and no record is analyzing.
C8_CompletionOnlyWhenDrained ==
  lastOp.name = "queue_empty" => WithStatus({"new", "analyzing"}) = {}

\* C9: once every record has a terminal status and isRunning is false, no
\* record changes and no analyzeAndApply call is started.
C9_QuiescentAfterDrain ==
  [][(~isRunning /\ WithStatus(Terminal) = 1..Len(jobs)) =>
       jobs' = jobs /\ lastOp'.name # "call"]_vars

PerRecordLogs ==
  {k \in 1..Len(logs) :
     logs[k].message # "queue_empty" /\ logs[k].type \in {"success", "info"}}

CompletionLogs == {k \in 1..Len(logs) : logs[k].message = "queue_empty"}

\* C10: in the quota scenario, when the loop has stopped with every record
\* in a terminal status, all records are applied or skipped and the log
\* holds exactly 3 per-record entries of type success or info and one
\* completion entry.
C10_QuotaScenario ==
  (~isRunning /\ ~pending /\ WithStatus(Terminal) = 1..Len(jobs)) =>
    /\ WithStatus({"applied", "skipped"}) = 1..Len(jobs)
    /\ Cardinality(PerRecordLogs) = 3
    /\ Cardinality(CompletionLogs) = 1

\* C11: a record that becomes analyzing is, in the list as it is at that
\* moment, the first record whose status is new.
C11_PicksFirstNew ==
  [][\A i \in 1..Len(jobs) :
       (jobs[i].status # "analyzing" /\ jobs'[i].status = "analyzing")
         => (jobs[i].status = "new" /\ i = FindIndexNew(jobs))]_vars

\* C14: while isRunning is false and a record is analyzing, no other record
\* becomes analyzing.
C14_NoOtherPickWhilePaused ==
  [][\A j \in 1..Len(jobs) :
       (~isRunning /\ jobs[j].status = "analyzing") =>
         \A i \in 1..Len(jobs) :
           (i # j /\ jobs[i].status # "analyzing") => jobs'[i].status # "analyzing"]_vars

UrlsOf(js) == {js[k].url : k \in 1..Len(js)}

\* C12: addJobsToQueue keeps the queue as a prefix, appends only listings of
\* the batch whose url was not in the queue, makes the queue grow by the
\* number of distinct urls of the batch that were not in the queue, and
\* leaves no two records with the same url.
C12_DedupByUrl ==
  [][lastOp'.name = "add" =>
       LET batch == io'.in
           novel == {batch[k] : k \in 1..Len(batch)} \ UrlsOf(jobs)
       IN /\ SubSeq(jobs', 1, Len(jobs)) = jobs
          /\ \A k \in (Len(jobs) + 1)..Len(jobs') : jobs'[k].url \in novel
          /\ Len(jobs') = Len(jobs) + Cardinality(novel)
          /\ \A a, b \in 1..Len(jobs') : jobs'[a].url = jobs'[b].url => a = b]_vars

\* C13: every write of the blob stores the last 50 entries of the in-memory
\* log (all of them when there are fewer), in generation order, so the
\* stored log never has more than 50 entries.
C13_LogRetention ==
  [][storage' # storage =>
       LET w == storage'[1].logs
           n == Len(logs)
       IN /\ Len(w) <= 50
          /\ Len(w) = (IF n < 50 THEN n ELSE 50)
          /\ \A k \in 1..Len(w) : w[k] = logs[n - Len(w) + k]]_vars

C13_Witness ==
  /\ storage # <<>>
  /\ Len(storage[1].logs) = 50
  /\ storage[1].logs[1].timestamp = 3
  /\ Len(logs) = 52

\* The retryOperation of this run has settled.
RetrySettled ==
  io.fn = "analyzeAndApply" /\ io.in.variant = "smart" /\ io.pc = "settled"

RateLimited(o) == o.kind = "error" /\ (o.err.m429 \/ o.err.mQuota \/ o.err.s429)

\* C15: retryOperation calls the operation at most twice; it returns the
\* first successful result; a rate-limit error is rethrown without a further
\* call; after another error on the first call it calls once more and
\* rethrows the second error if that call fails too.
C15_RetryPolicy ==
  RetrySettled =>
    LET first == io.in.script[1]
        second == io.in.script[2]
    IN /\ io.calls <= 2
       /\ first.kind # "error" =>
            io.calls = 1 /\ io.retry.kind # "throw"
              /\ (first.kind = "ok" => io.retry = [kind |-> "value", score |-> first.score, err |-> NoError])
       /\ RateLimited(first) =>
            io.calls = 1 /\ io.retry = [kind |-> "throw", score |-> 0, err |-> first.err]
       /\ (first.kind = "error" /\ ~RateLimited(first)) =>
            /\ io.calls = 2
            /\ second.kind = "error" =>
                 io.retry = [kind |-> "throw", score |-> 0, err |-> second.err]
            /\ second.kind = "ok" =>
                 io.retry = [kind |-> "value", score |-> second.score, err |-> NoError]

C15_Witness ==
  /\ RetrySettled
  /\ io.calls = 2
  /\ io.in.script[1].kind = "error"
  /\ io.in.script[2].kind = "error"
  /\ io.retry.kind = "throw"
  /\ io.retry.err = io.in.script[2].err
  /\ io.in.script[2].err # io.in.script[1].err

AgentDone ==
  io.fn = "analyzeAndApply" /\ io.in.variant = "smart" /\ io.pc = "done"

\* C16: runSmartAgent never ends with an error of apiCall: without a
\* credential it returns the fallback result without a call, and when the
\* last call made failed it returns the fallback result.
C16_AgentNeverThrows ==
  AgentDone =>
    /\ io.out.kind # "throw"
    /\ ~io.in.hasKey =>
         io.calls = 0 /\ io.out.kind = "value" /\ io.out.score = io.in.local
    /\ (io.in.hasKey /\ io.in.script[io.calls].kind = "error") =>
         io.out.kind = "value" /\ io.out.score = io.in.local

C16_Witness ==
  /\ AgentDone
  /\ io.in.hasKey
  /\ io.calls = 2
  /\ io.in.script[2].kind = "error"
  /\ ~RateLimited(io.in.script[2])
  /\ io.out.kind = "value"
  /\ io.out.score = io.in.local

\* C17: when the answer of the model does not parse, analyzeAndApply
\* resolves with a result object that has a score; it neither resolves with
\* null nor rejects.
C17_MalformedGivesFallback ==
  (/\ io.fn = "analyzeAndApply"
   /\ io.pc = "done"
   /\ io.calls >= 1
   /\ io.in.script[io.calls].kind = "malformed")
    => io.out.kind = "value"

\* C18: the score of optimizeResumeLocally is an integer in 30..98, equal
\* to min(98, max(30, round(100 * found / total) + 20)), for every job
\* description and resume text, a job description without keywords included.
C18_ScoreInRange ==
  (io.fn = "optimizeResumeLocally" /\ io.pc = "done") =>
    /\ Len(io.score) = 1
    /\ io.score[1] \in 30..98
    /\ LET total == Cardinality(ExtractKeywordsLocally(io.jobDesc))
           found == Cardinality(FoundKeywords(io.jobDesc, io.resume))
       IN total > 0 =>
            LET r == ((200 * found + total) \div (2 * total)) + 20
            IN io.score[1] = (IF r < 30 THEN 30 ELSE IF r > 98 THEN 98 ELSE r)

AggregatedForLevel ==
  io.fn = "getAggregatedJobs" /\ io.pc = "done" /\ io.level # NoLevel

\* The lower-cased title contains none of the exclusion keywords of the level.
NoneExcluded(title, level) ==
  \A keyword \in EXCLUSION_KEYWORDS(level) :
     ~TitleIncludes(LowerTitle(title), keyword)

\* C20 as stated: getAggregatedJobs keeps exactly the listings whose
\* lower-cased title contains none of the exclusion keywords of the level.
C20_KeepsExactlyMatching ==
  AggregatedForLevel =>
    \A k \in DOMAIN Titles :
       io.kept[k] = (IF NoneExcluded(Titles[k], io.level) THEN io.combined[k] ELSE 0)

\* C20 amended: getAggregatedJobs keeps only listings whose lower-cased
\* title contains none of the exclusion keywords of the level, and all of
\* them when at most 50 such listings were fetched; for 'Entry Level' no
\* 'Senior Backend Engineer' survives and the 'Junior Backend Engineer'
\* listings do.
C20_KeepsOnlyMatching ==
  AggregatedForLevel =>
    LET matching == [k \in DOMAIN Titles |->
                       IF NoneExcluded(Titles[k], io.level) THEN io.combined[k] ELSE 0]
    IN /\ \A k \in DOMAIN Titles : io.kept[k] <= matching[k]
       /\ Total(matching) <= 50 =>
            /\ Total(matching) > 0 => io.kept = matching
            /\ Total(matching) = 0 => io.hardcoded /\ Total(io.kept) = 0
       /\ Total(matching) > 50 => Total(io.kept) = 50
       /\ io.level = "Entry Level" =>
            /\ io.kept[1] = 0
            /\ Total(matching) <= 50 => io.kept[2] = io.combined[2]

C20_Witness ==
  /\ AggregatedForLevel
  /\ io.level = "Entry Level"
  /\ io.combined[1] = 1
  /\ io.combined[2] = 1
  /\ io.kept[1] = 0
  /\ io.kept[2] = 1

Aggregated == io.fn = "getAggregatedJobs" /\ io.pc = "done"

\* The number of listings getAggregatedJobs returned.
Returned == Total(io.kept) + Len(io.mock)

\* C21: getAggregatedJobs returns at least one and at most 50 listings; when
\* the sources return nothing or the seniority filter removes every fetched
\* listing, it returns exactly the one placeholder listing with id 'mock-1'
\* and status new.
C21_NeverEmptyAtMostFifty ==
  Aggregated =>
    /\ Returned >= 1
    /\ Returned <= 50
    /\ (\A k \in DOMAIN Titles :
          io.combined[k] = 0
            \/ (io.level # NoLevel /\ ~NoneExcluded(Titles[k], io.level)))
         => /\ Total(io.kept) = 0
            /\ Len(io.mock) = 1
            /\ io.mock[1].id = "mock-1"
            /\ io.mock[1].status = "new"

C21_Witness ==
  /\ Aggregated
  /\ io.level = "Entry Level"
  /\ io.combined = <<MaxPerTitle, 0, 1, 0>>
  /\ Total(io.kept) = 0
  /\ Len(io.mock) = 1

\* C22: once the stats effect has run for the current job list, totalFound
\* is the number of records, applied the number with status applied and
\* skipped the number with status skipped; the loop's updateStats calls
\* change nothing, and applied + skipped <= totalFound.
C22_StatsFollowJobs ==
  io.fn = "stats" =>
    /\ io.seen = <<jobs>> =>
         /\ io.stats.totalFound = Len(jobs)
         /\ io.stats.applied = Cardinality({k \in DOMAIN jobs : jobs[k].status = "applied"})
         /\ io.stats.skipped = Cardinality({k \in DOMAIN jobs : jobs[k].status = "skipped"})
    /\ io.seen # <<>> => io.stats.applied + io.stats.skipped <= io.stats.totalFound

C22_Witness ==
  /\ io.fn = "stats"
  /\ io.seen = <<jobs>>
  /\ io.stats = [totalFound |-> 2, applied |-> 1, skipped |-> 1]
  /\ \E k \in DOMAIN jobs : jobs[k].status = "skipped"

\* C24: what the load effect puts into the state is what was saved: the
\* same profile and jobs, and the last 50 saved log entries in their order,
\* each with a timestamp of the same instant.
C24_SaveLoadRoundTrip ==
  [][(io.fn = "App" /\ io.pc = "mount" /\ io'.pc = "ready") =>
       LET saved == io.saved[1]
           n == Len(saved.logs)
           m == IF n < 50 THEN n ELSE 50
       IN /\ io'.profile = saved.profile
          /\ jobs' = saved.jobs
          /\ Len(logs') = m
          /\ \A k \in 1..m : logs'[k] = saved.logs[n - m + k]]_vars

\* C30: after a mount that found a stored blob, every write to storage holds
\* the loaded profile and jobs or a later version of them, never the
\* default state of the first render.
C30_NoDefaultOverwrite ==
  [][(io.fn = "App" /\ io.loads > 0 /\ storage' # storage) =>
       /\ storage'[1].profile = io.profile
       /\ storage'[1].jobs = jobs]_vars

C30_Witness ==
  /\ io.fn = "App"
  /\ io.loads > 0
  /\ lastOp.name = "save"
  /\ Len(jobs) > 0
  /\ storage[1].jobs = jobs
  /\ storage[1].profile = "user"

\* C23: no operation removes a record or changes a record's id or url; the
\* sequence of record ids is only extended at its end.
C23_RecordsOnlyAppended ==
  [][/\ Len(jobs') >= Len(jobs)
     /\ \A k \in DOMAIN jobs :
          jobs'[k].id = jobs[k].id /\ jobs'[k].url = jobs[k].url]_vars

C23_Witness ==
  /\ Len(jobs) = 3
  /\ \E k \in DOMAIN jobs : jobs[k].status = "interviewing" /\ jobs[k].interviewPrep
  /\ \E k \in DOMAIN jobs : jobs[k].status = "analyzing"

\* C25: a drop or the 'Move & Prep' button changes only records whose status
\* is applied, interviewing, offer or rejected, and sets one of these four.
C25_BoardMovesPipelineRecordsOnly ==
  [][board'.moves # board.moves =>
       \A k \in DOMAIN jobs :
          jobs'[k] # jobs[k] =>
            /\ jobs[k].status \in {"applied", "interviewing", "offer", "rejected"}
            /\ jobs'[k].status \in {"applied", "interviewing", "offer", "rejected"}]_vars

\* C26: when the result of a classification is written, the list still holds
\* what the user did while a classification was in flight (every added
\* record, the status given to another record) and the written record is in
\* a terminal status.
C26_NoLostUpdate ==
  [][(lastOp'.name \in {"return", "throw"} /\ jobs' # jobs) =>
       /\ Len(jobs') = Len(jobs)
       /\ jobs'[lastOp'.idx].status \in {"applied", "skipped", "failed"}
       /\ \A m \in board.during :
            m[1] # lastOp'.idx => jobs'[m[1]].status = m[2]]_vars

\* C27: a write of the queue processor changes only the record it picked;
\* the other records, the length and the order of the list are unchanged,
\* and the written record keeps its id and url.
C27_WriteChangesOnlyPicked ==
  [][(lastOp'.name \in {"pick", "repick", "return", "throw"} /\ jobs' # jobs) =>
       /\ Len(jobs') = Len(jobs)
       /\ \A k \in DOMAIN jobs : k # lastOp'.idx => jobs'[k] = jobs[k]
       /\ jobs'[lastOp'.idx].id = jobs[lastOp'.idx].id
       /\ jobs'[lastOp'.idx].url = jobs[lastOp'.idx].url]_vars

C27_Witness ==
  /\ lastOp.name = "return"
  /\ Len(jobs) = 3
  /\ jobs[lastOp.idx].status = "applied"
  /\ \E k \in DOMAIN jobs : k # lastOp.idx /\ jobs[k].status = "analyzing"

\* C28: every manual submission with a title and a company adds exactly one
\* record with status new, also without a url and also when an earlier
\* listing had no url either.
C28_ManualSubmitAddsOne ==
  [][(lastOp'.name = "add" /\ Len(logs') = Len(logs) + 1) =>
       /\ Len(jobs') = Len(jobs) + 1
       /\ jobs'[Len(jobs')].status = "new"]_vars

\* C29: a record that is analyzing in the loaded state reaches a terminal
\* status once the loop has been started again.
C29_LoadedAnalyzingFinishes ==
  \A i \in 1..MaxJobs :
     (lastOp.name = "start" /\ "new" \notin hist[i] /\ jobs[i].status = "analyzing")
       ~> (jobs[i].status \in {"applied", "skipped", "failed"})

====
